---- MODULE Spec2Model ----
(***************************************************************************)
(* State-machine model of the heartbeat scheduler (utils/heartbeat.py,     *)
(* class HeartBeat) and of the reconnecting WebSocket client               *)
(* (utils/websocket.py, class WebSocketClient).                            *)
(*                                                                         *)
(* One action is one run of a piece of code between two suspension points  *)
(* of the asyncio event loop: code that contains no await runs atomically. *)
(***************************************************************************)
EXTENDS Integers, Sequences, FiniteSets, TLC

VARIABLES
    hb,         \* the HeartBeat object: count, is_running, tasks; timers = pending call_later(ticker)
    uuid,       \* number of task ids tools.get_uuid1() has produced so far
    launched,   \* history: ids of the tasks whose callback the last ticker() run launched, in order
    fired,      \* history: per task id, how many times its callback was launched
    hist,       \* history of the scheduler's calls (see InitHist)
    lastOp,     \* the last operation that ran: [op, arg, ret, exc]
    c,          \* the WebSocketClient object
    cfg,        \* its constructor arguments
    procs,      \* coroutines of the client that are suspended or queued on the event loop
    adapter,    \* an exchange adapter's subscription table and the callbacks its last frame invoked
    rx,         \* the receive loop: messages its socket yielded, handlers running, hook calls
    peer        \* a second WebSocketClient object on the same scheduler

hbVars == <<hb, uuid, launched, fired, hist>>
wsVars == <<c, cfg, procs>>
vars == <<hb, uuid, launched, fired, hist, lastOp, c, cfg, procs, adapter, rx, peer>>

----------------------------------------------------------------------------
(* Bounds of the model *)

\* ticks followed when start, stop, register and unregister interleave freely
MaxTicks == 3
\* ticks followed when the scheduler is started once and left running
RunTicks == 15
\* task ids get_uuid1 hands out
MaxIds == 2
\* start() calls that start the scheduler
MaxStarts == 2
\* ticks followed beside a client
MaxWsTicks == 2
\* task ids get_uuid1 hands out where start() is called twice, by one client or by two
MaxClientIds == 4
\* disconnect() calls that are awaiting ws.close() at the same time
MaxClosing == 1
\* messages followed through the receive loops of a client
MaxFrames == 3
\* largest reconnect counter the backoff computation is applied to
MaxCounter == 16
\* longest subscription key, and most subscriptions held at a time
MaxKeyLen == 2
MaxSubs == 2

\* interval arguments tried with register(): over MaxTicks ticks, and over RunTicks ticks
Intervals == {-1, 0, 1, 2}
RunIntervals == {0, 1, 3, 5}

Ids == 1..MaxIds

Min(a, b) == IF a < b THEN a ELSE b

Op(op, arg, ret, exc) == [op |-> op, arg |-> arg, ret |-> ret, exc |-> exc]

----------------------------------------------------------------------------
(* HeartBeat: utils/heartbeat.py *)

\* HeartBeat.__init__
HeartBeatInit == [count |-> 0, is_running |-> FALSE, tasks |-> <<>>, timers |-> 0]

TaskIds(tasks) == {tasks[i].id : i \in 1..Len(tasks)}

\* the loop of _execute_tasks: the tasks, in dict order, whose interval divides the count
DueTasks(h) == SelectSeq(h.tasks, LAMBDA t : h.count % t.interval = 0)

\* mutant: the comparison of _execute_tasks inverted
execute_tasks_inverted(h) ==
    LET due == SelectSeq(h.tasks, LAMBDA t : h.count % t.interval # 0)
    IN  [i \in 1..Len(due) |-> due[i]]

\* mutant: the first callback whose call raises ends the loop of _execute_tasks
execute_tasks_aborts(h) ==
    LET due == DueTasks(h)
        bad == {i \in 1..Len(due) : due[i].func = "cb_bad_call"}
    IN  IF bad = {} THEN due
        ELSE SubSeq(due, 1, (CHOOSE i \in bad : \A j \in bad : i <= j) - 1)

\* mutant: the iteration over the task table ends after the first task launched
execute_tasks_cut_short(h) ==
    LET due == SelectSeq(DueTasks(h), LAMBDA t : t.func # "cb_bad_call")
    IN  IF due = <<>> THEN <<>> ELSE <<due[1]>>

\* _execute_tasks: the tasks whose callback is handed to create_task, in order; a
\* callback whose call func(*args, **kwargs) raises is logged and passed over
execute_tasks(h) ==
    LET due == SelectSeq(DueTasks(h), LAMBDA t : t.func # "cb_bad_call")
    IN  [i \in 1..Len(due) |-> due[i]]

\* mutant: the counter is not advanced before the tasks are run
ticker_stale_count(h) ==
    IF ~h.is_running
    THEN [hb |-> h, ran |-> <<>>]
    ELSE [hb |-> [h EXCEPT !.count = @ + 1, !.timers = @ + 1], ran |-> execute_tasks(h)]

\* mutant: ticker without the test of the running flag
ticker_ignores_flag(h) ==
    LET h1 == [h EXCEPT !.count = @ + 1]
    IN  [hb |-> [h1 EXCEPT !.timers = @ + 1], ran |-> execute_tasks(h1)]

\* ticker: one tick; .ran are the tasks launched
ticker(h) ==
    IF ~h.is_running
    THEN [hb |-> h, ran |-> <<>>]
    ELSE LET h1 == [h EXCEPT !.count = @ + 1]
         IN  [hb |-> [h1 EXCEPT !.timers = @ + 1], ran |-> execute_tasks(h1)]

\* mutant: start without the test of the running flag
start_always_restarts(h) == ticker([h EXCEPT !.is_running = TRUE, !.count = 0])

\* start
start(h) ==
    IF h.is_running
    THEN [hb |-> h, ran |-> <<>>]
    ELSE ticker([h EXCEPT !.is_running = TRUE, !.count = 0])

\* stop
stop(h) == [h EXCEPT !.is_running = FALSE]

\* mutant: the guard of register lets interval 0 through
register_accepts_zero(h, task_id, func, interval) ==
    IF interval < 0
    THEN [hb |-> h, ret |-> "None", exc |-> "ValueError"]
    ELSE [hb |-> [h EXCEPT !.tasks = Append(@, [id |-> task_id, interval |-> interval, func |-> func])],
          ret |-> "task_id", exc |-> "none"]

\* register; task_id is the fresh uuid1
register(h, task_id, func, interval) ==
    IF interval <= 0
    THEN [hb |-> h, ret |-> "None", exc |-> "ValueError"]
    ELSE [hb |-> [h EXCEPT !.tasks = Append(@, [id |-> task_id, interval |-> interval, func |-> func])],
          ret |-> "task_id", exc |-> "none"]

\* mutant: unregister reports success whether or not the id was there
unregister_always_true(h, task_id) ==
    [hb |-> [h EXCEPT !.tasks = SelectSeq(@, LAMBDA t : t.id # task_id)], ret |-> "True"]

\* unregister
unregister(h, task_id) ==
    IF task_id \in TaskIds(h.tasks)
    THEN [hb |-> [h EXCEPT !.tasks = SelectSeq(@, LAMBDA t : t.id # task_id)], ret |-> "True"]
    ELSE [hb |-> h, ret |-> "False"]

\* clear_tasks
clear_tasks(h) == [h EXCEPT !.tasks = <<>>]

\* history kept for the properties: starts = start() calls that started the scheduler
\* so far, early = ids registered before the first of them, unregs = ids
\* unregister() was called with, cleared = ids removed by clear_tasks()
InitHist == [starts |-> 0, early |-> {}, unregs |-> {}, cleared |-> {}]

\* the launches are counted for the ids in the domain of fired: where a specification
\* has no use for the counts, it starts with none
NotCounted == [id \in {} |-> 0]

Launch(ran) == [id \in DOMAIN fired |-> fired[id] + Cardinality({i \in 1..Len(ran) : ran[i].id = id})]

LaunchedIds(ran) == [i \in 1..Len(ran) |-> ran[i].id]

\* create_task(func(...)) of _execute_tasks: the client's callbacks wait on the event loop
Spawn(ran) ==
    [procs EXCEPT
        !.checks = @ + Cardinality({i \in 1..Len(ran) : ran[i].func = "_check_connection"}),
        !.hbs = @ + Cardinality({i \in 1..Len(ran) : ran[i].func = "_send_heartbeat"}),
        !.cbs = @ + Cardinality({i \in 1..Len(ran) :
                                    ran[i].func \in {"cb_raises", "cb_modifies"}})]

----------------------------------------------------------------------------
(* WebSocketClient: utils/websocket.py *)

\* ConnectionState
ConnectionState == {"disconnected", "connecting", "connected", "reconnecting", "closed"}

\* the defaults of WebSocketClient.__init__; heartbeat_msg is "None" (also for an empty
\* dict or string, which test false), "dict", "str" or "other" for any other type
DefaultConfig ==
    [auto_reconnect |-> TRUE, max_reconnect_attempts |-> 0, check_conn_interval |-> 10,
     send_hb_interval |-> 10, heartbeat_msg |-> "None"]

\* WebSocketClient.__init__: ws and session are "None", "open" or "closed" (the handle's
\* own closed flag); a task id of 0 is None; log lists what the current step did, in
\* order; wait_time is the local of _reconnect
WebSocketClientInit ==
    [state |-> "disconnected", ws |-> "None", session |-> "None", reconnect_count |-> 0,
     check_task_id |-> 0, heartbeat_task_id |-> 0, log |-> <<>>, wait_time |-> 0]

\* the coroutines of the client the event loop holds: connect() tasks created by start()
\* and not yet run, connect() calls awaiting ws_connect, _reconnect calls in
\* asyncio.sleep, receive loops on the current and on a replaced socket, disconnect()
\* calls awaiting ws.close(), launched liveness checks and heartbeat senders not yet run
ProcsInit ==
    [connect_tasks |-> 0, handshakes |-> 0, sleepers |-> 0, recv_cur |-> 0, recv_old |-> 0,
     closing |-> 0, checks |-> 0, hbs |-> 0, cbs |-> 0]

Log(w, e) == [w EXCEPT !.log = Append(@, e)]

\* self._state = ...
SetState(w, s) == [w EXCEPT !.state = s, !.log = Append(@, s)]

Logged(e) == \E i \in 1..Len(c.log) : c.log[i] = e

\* mutant: the cap of the backoff left out
wait_time_uncapped(count) == count * 2

\* wait_time = min(self._reconnect_count * 2, 30)
wait_time(count) == Min(count * 2, 30)

\* mutant: _reconnect without the test of the attempt limit
reconnect_ignores_limit(w, conf) ==
    IF w.state = "reconnecting"
    THEN [c |-> w, sleep |-> FALSE]
    ELSE LET w1 == SetState(w, "reconnecting")
             w2 == [w1 EXCEPT !.reconnect_count = @ + 1]
         IN  [c |-> Log([w2 EXCEPT !.wait_time = wait_time(w2.reconnect_count)], "sleep"),
              sleep |-> TRUE]

\* mutant: _reconnect tests the limit with > instead of >=
reconnect_limit_off_by_one(w, conf) ==
    IF w.state = "reconnecting"
    THEN [c |-> w, sleep |-> FALSE]
    ELSE IF conf.max_reconnect_attempts > 0
            /\ w.reconnect_count > conf.max_reconnect_attempts
    THEN [c |-> Log(w, "exhausted"), sleep |-> FALSE]
    ELSE LET w1 == SetState(w, "reconnecting")
             w2 == [w1 EXCEPT !.reconnect_count = @ + 1]
         IN  [c |-> Log([w2 EXCEPT !.wait_time = wait_time(w2.reconnect_count)], "sleep"),
              sleep |-> TRUE]

\* _reconnect up to its await asyncio.sleep; .sleep says whether it got there
reconnect(w, conf) ==
    IF w.state = "reconnecting"
    THEN [c |-> w, sleep |-> FALSE]
    ELSE IF conf.max_reconnect_attempts > 0
            /\ w.reconnect_count >= conf.max_reconnect_attempts
    THEN [c |-> Log(w, "exhausted"), sleep |-> FALSE]
    ELSE LET w1 == SetState(w, "reconnecting")
             w2 == [w1 EXCEPT !.reconnect_count = @ + 1]
         IN  [c |-> Log([w2 EXCEPT !.wait_time = wait_time(w2.reconnect_count)], "sleep"),
              sleep |-> TRUE]

\* mutant: on_disconnect is called only after the reconnect was started
handle_disconnect_hook_late(w, conf) ==
    IF w.state = "closed"
    THEN [c |-> w, sleep |-> FALSE]
    ELSE LET w1 == SetState(w, "disconnected")
         IN  IF conf.auto_reconnect
             THEN LET r == reconnect(w1, conf)
                  IN  [c |-> Log(r.c, "on_disconnect"), sleep |-> r.sleep]
             ELSE [c |-> Log(w1, "on_disconnect"), sleep |-> FALSE]

\* mutant: _handle_disconnect without the test for CLOSED
handle_disconnect_ignores_closed(w, conf) ==
    LET w1 == Log(SetState(w, "disconnected"), "on_disconnect")
    IN  IF conf.auto_reconnect
        THEN reconnect(w1, conf)
        ELSE [c |-> w1, sleep |-> FALSE]

\* _handle_disconnect; on_disconnect of the base class and of every adapter returns
\* without awaiting
handle_disconnect(w, conf) ==
    IF w.state = "closed"
    THEN [c |-> w, sleep |-> FALSE]
    ELSE LET w1 == Log(SetState(w, "disconnected"), "on_disconnect")
         IN  IF conf.auto_reconnect
             THEN reconnect(w1, conf)
             ELSE [c |-> w1, sleep |-> FALSE]

\* mutant: the except branch leaves the state at CONNECTING
connect_fail_keeps_state(w) == Log(w, "ws_connect_raised")

\* connect after ws_connect raised: the two except branches
connect_fail(w) == SetState(Log(w, "ws_connect_raised"), "disconnected")

\* mutant: the guard of connect tests for CONNECTED only
connect_begin_guard_connected_only(w) ==
    IF w.state = "connected"
    THEN [c |-> w, ret |-> "False", await |-> FALSE]
    ELSE LET w1 == SetState(w, "connecting")
             w2 == [w1 EXCEPT !.session = IF @ = "None" THEN "open" ELSE @]
         IN  IF w2.session = "closed"
             THEN [c |-> connect_fail(w2), ret |-> "False", await |-> FALSE]
             ELSE [c |-> w2, ret |-> "pending", await |-> TRUE]

\* connect up to its await of ws_connect. A session object that exists is kept, also
\* a closed one, and ws_connect on a closed session raises RuntimeError before it
\* awaits anything: except Exception then runs in the same step
connect_begin(w) ==
    IF w.state \in {"connecting", "connected"}
    THEN [c |-> w, ret |-> "False", await |-> FALSE]
    ELSE LET w1 == SetState(w, "connecting")
             w2 == [w1 EXCEPT !.session = IF @ = "None" THEN "open" ELSE @]
         IN  IF w2.session = "closed"
             THEN [c |-> connect_fail(w2), ret |-> "False", await |-> FALSE]
             ELSE [c |-> w2, ret |-> "pending", await |-> TRUE]

\* mutant: the receive loop is started before on_connect is awaited
connect_ok_loop_first(w) ==
    LET w1 == SetState([w EXCEPT !.ws = "open"], "connected")
        w2 == [w1 EXCEPT !.reconnect_count = 0]
    IN  Log(Log(w2, "create_task(_receive_loop)"), "on_connect")

\* connect after ws_connect returned a socket: lines 113 to 130
connect_ok(w) ==
    LET w1 == SetState([w EXCEPT !.ws = "open"], "connected")
        w2 == [w1 EXCEPT !.reconnect_count = 0]
    IN  Log(Log(w2, "on_connect"), "create_task(_receive_loop)")

\* is_connected
is_connected(w) == w.state = "connected" /\ w.ws = "open"

\* mutant: _check_connection without the test of the recorded state
check_connection_ignores_state(w, conf) ==
    IF w.ws = "None"
    THEN [c |-> w, sleep |-> FALSE]
    ELSE IF w.ws = "closed"
    THEN handle_disconnect(w, conf)
    ELSE [c |-> w, sleep |-> FALSE]

\* _check_connection
\* _handle_disconnect with an on_disconnect hook that raises when raises is TRUE:
\* nothing around the await catches, so the exception leaves the procedure before
\* the test of auto_reconnect; .raised counts the exceptions the hook raised
handle_disconnect_hook(w, conf, raises) ==
    IF w.state = "closed"
    THEN [c |-> w, sleep |-> FALSE, exc |-> "none", raised |-> 0]
    ELSE LET w1 == Log(SetState(w, "disconnected"), "on_disconnect")
         IN  IF raises
             THEN [c |-> w1, sleep |-> FALSE, exc |-> "Exception", raised |-> 1]
             ELSE LET r == IF conf.auto_reconnect
                           THEN reconnect(w1, conf)
                           ELSE [c |-> w1, sleep |-> FALSE]
                  IN  [c |-> r.c, sleep |-> r.sleep, exc |-> "none", raised |-> 0]

\* _receive_loop on a CLOSED or ERROR message: _handle_disconnect is awaited inside
\* the try, and the except clause of the loop awaits it once more
receive_loop_disconnect(w, conf, raises1, raises2) ==
    LET r1 == handle_disconnect_hook(w, conf, raises1)
    IN  IF r1.exc = "none"
        THEN r1
        ELSE LET r2 == handle_disconnect_hook(Log(r1.c, "loop_exception"), conf, raises2)
             IN  [r2 EXCEPT !.raised = @ + r1.raised]

\* _check_connection with the same hook: it has no try of its own
check_connection_hook(w, conf, raises) ==
    IF w.ws = "None"
    THEN [c |-> w, sleep |-> FALSE, exc |-> "none", raised |-> 0]
    ELSE IF w.ws = "closed" /\ w.state = "connected"
    THEN handle_disconnect_hook(w, conf, raises)
    ELSE [c |-> w, sleep |-> FALSE, exc |-> "none", raised |-> 0]

check_connection(w, conf) ==
    IF w.ws = "None"
    THEN [c |-> w, sleep |-> FALSE]
    ELSE IF w.ws = "closed" /\ w.state = "connected"
    THEN handle_disconnect(w, conf)
    ELSE [c |-> w, sleep |-> FALSE]

\* mutant: send_json without the is_connected test
send_json_unguarded(w, ok) ==
    IF ok
    THEN [c |-> Log(w, "frame_sent"), ret |-> "True"]
    ELSE [c |-> Log(w, "send_raised"), ret |-> "False"]

\* WebSocketClient.send_json; ok says whether self._ws.send_json(data) returns, the
\* alternative being that it raises (serialisation, closing transport)
send_json(w, ok) ==
    IF ~is_connected(w)
    THEN [c |-> w, ret |-> "False"]
    ELSE IF ok
    THEN [c |-> Log(w, "frame_sent"), ret |-> "True"]
    ELSE [c |-> Log(w, "send_raised"), ret |-> "False"]

\* WebSocketClient.send_text; ok says whether self._ws.send_str(text) returns
send_text(w, ok) ==
    IF ~is_connected(w)
    THEN [c |-> w, ret |-> "False"]
    ELSE IF ok
    THEN [c |-> Log(w, "frame_sent"), ret |-> "True"]
    ELSE [c |-> Log(w, "send_raised"), ret |-> "False"]

\* mutant: _send_heartbeat without the is_connected test
send_heartbeat_unguarded(w, conf, ok) ==
    IF conf.heartbeat_msg = "None"
    THEN w
    ELSE IF conf.heartbeat_msg = "dict"
    THEN Log(w, IF ok THEN "send_json(heartbeat_msg)" ELSE "send_raised")
    ELSE IF conf.heartbeat_msg = "str"
    THEN Log(w, IF ok THEN "send_str(heartbeat_msg)" ELSE "send_raised")
    ELSE Log(w, "unsupported_type")

\* _send_heartbeat of the base class; ok says whether the send on the socket returns,
\* the alternative being that it raises, which except Exception catches
send_heartbeat(w, conf, ok) ==
    IF ~is_connected(w) \/ conf.heartbeat_msg = "None"
    THEN w
    ELSE IF conf.heartbeat_msg = "dict"
    THEN Log(w, IF ok THEN "send_json(heartbeat_msg)" ELSE "send_raised")
    ELSE IF conf.heartbeat_msg = "str"
    THEN Log(w, IF ok THEN "send_str(heartbeat_msg)" ELSE "send_raised")
    ELSE Log(w, "unsupported_type")

\* the receive loop of a client: received = the messages its socket has yielded, in
\* order; at_hook = the loop is suspended in the await of a handler; running = the
\* positions in received of the messages whose handler has not finished; calls = the
\* calls of the process / process_binary hooks and how they ended, in order
RxInit == [received |-> <<>>, at_hook |-> FALSE, running |-> {}, calls |-> <<>>]

\* the messages a socket yields: TEXT that json.loads accepts or rejects, BINARY, the
\* close handshake (CLOSE), a transport or protocol error (ERROR), and any other type
Msgs ==
    [type : {"TEXT"}, json : BOOLEAN]
        \cup [type : {"BINARY", "CLOSE", "ERROR", "PONG"}, json : {FALSE}]

\* _handle_text_message up to await self.process(parsed_data): json.loads(data), or
\* data itself where JSONDecodeError is raised
parsed_data(msg) == IF msg.json THEN "decoded" ELSE "raw"

HookCall(hook, n, data) == [ev |-> "call", hook |-> hook, n |-> n, data |-> data]

\* mutant: the handlers are started as tasks, the loop goes on to the next message
receive_loop_spawns_handlers(w, r, conf, msg) ==
    LET r1 == [r EXCEPT !.received = Append(@, msg)]
        n == Len(r1.received)
    IN  IF msg.type = "TEXT"
        THEN [c |-> w, sleep |-> FALSE, over |-> FALSE,
              rx |-> [r1 EXCEPT !.running = @ \cup {n},
                                !.calls = Append(@, HookCall("process", n, parsed_data(msg)))]]
        ELSE IF msg.type = "BINARY"
        THEN [c |-> w, sleep |-> FALSE, over |-> FALSE,
              rx |-> [r1 EXCEPT !.running = @ \cup {n},
                                !.calls = Append(@, HookCall("process_binary", n, "bytes"))]]
        ELSE IF msg.type = "CLOSE"
        THEN [c |-> w, sleep |-> FALSE, over |-> TRUE, rx |-> r1]
        ELSE IF msg.type = "ERROR"
        THEN LET d == handle_disconnect(w, conf)
             IN  [c |-> d.c, sleep |-> d.sleep, over |-> TRUE, rx |-> r1]
        ELSE [c |-> w, sleep |-> FALSE, over |-> FALSE, rx |-> r1]

\* one turn of async for msg in self._ws, up to the next suspension. The iterator of
\* the aiohttp socket ends the iteration on a CLOSE, CLOSING or CLOSED message without
\* yielding it, so the branch for WSMsgType.CLOSED is not entered; .over says whether
\* the loop has ended
receive_loop(w, r, conf, msg) ==
    LET r1 == [r EXCEPT !.received = Append(@, msg)]
        n == Len(r1.received)
    IN  IF msg.type = "TEXT"
        THEN [c |-> w, sleep |-> FALSE, over |-> FALSE,
              rx |-> [r1 EXCEPT !.at_hook = TRUE, !.running = @ \cup {n},
                                !.calls = Append(@, HookCall("process", n, parsed_data(msg)))]]
        ELSE IF msg.type = "BINARY"
        THEN [c |-> w, sleep |-> FALSE, over |-> FALSE,
              rx |-> [r1 EXCEPT !.at_hook = TRUE, !.running = @ \cup {n},
                                !.calls = Append(@, HookCall("process_binary", n, "bytes"))]]
        ELSE IF msg.type = "CLOSE"
        THEN [c |-> w, sleep |-> FALSE, over |-> TRUE, rx |-> r1]
        ELSE IF msg.type = "ERROR"
        THEN LET d == handle_disconnect(w, conf)
             IN  [c |-> d.c, sleep |-> d.sleep, over |-> TRUE, rx |-> r1]
        ELSE [c |-> w, sleep |-> FALSE, over |-> FALSE, rx |-> r1]

\* the hook whose call is the last entry for message n
HookOf(r, n) == (CHOOSE e \in {r.calls[i] : i \in 1..Len(r.calls)} : e.n = n /\ e.ev = "call").hook

\* mutant: an exception of the hook is not caught by the handler and reaches the
\* except branch of the loop
handle_message_end_propagates(w, r, conf, n, raises) ==
    LET r1 == [r EXCEPT !.at_hook = FALSE, !.running = @ \ {n},
                        !.calls = Append(@, [ev |-> IF raises THEN "raised" ELSE "return",
                                             hook |-> HookOf(r, n), n |-> n, data |-> "None"])]
    IN  IF raises
        THEN LET d == handle_disconnect(w, conf)
             IN  [c |-> d.c, sleep |-> d.sleep, over |-> TRUE, rx |-> r1]
        ELSE [c |-> w, sleep |-> FALSE, over |-> FALSE, rx |-> r1]

\* _handle_text_message / _handle_binary_message from the return of the awaited hook
\* on: the hook returned, or it raised and except Exception logs the error
handle_message_end(w, r, conf, n, raises) ==
    [c |-> w, sleep |-> FALSE, over |-> FALSE,
     rx |-> [r EXCEPT !.at_hook = FALSE, !.running = @ \ {n},
                      !.calls = Append(@, [ev |-> IF raises THEN "raised" ELSE "return",
                                           hook |-> HookOf(r, n), n |-> n, data |-> "None"])]]

\* WebSocketClient.start: an exception of register leaves start at that line
ws_start(w, h, u, conf) ==
    LET r1 == register(h, u + 1, "_check_connection", conf.check_conn_interval)
    IN  IF r1.exc # "none"
        THEN [c |-> w, hb |-> h, uuid |-> u, exc |-> r1.exc, spawn |-> FALSE]
        ELSE LET w1 == [w EXCEPT !.check_task_id = u + 1]
                 r2 == register(r1.hb, u + 2, "_send_heartbeat", conf.send_hb_interval)
             IN  IF r2.exc # "none"
                 THEN [c |-> w1, hb |-> r1.hb, uuid |-> u + 1, exc |-> r2.exc,
                       spawn |-> FALSE]
                 ELSE [c |-> Log([w1 EXCEPT !.heartbeat_task_id = u + 2],
                                 "create_task(connect)"),
                       hb |-> r2.hb, uuid |-> u + 2, exc |-> "none", spawn |-> TRUE]

\* disconnect from its await of ws.close() on: the session is closed
disconnect_end(w) ==
    IF w.session = "open"
    THEN Log([w EXCEPT !.session = "closed"], "session.close")
    ELSE w

\* mutant: disconnect empties the task table
disconnect_begin_clears_table(w, h) ==
    LET w1 == SetState(w, "closed")
        h2 == clear_tasks(h)
        w3 == [w1 EXCEPT !.check_task_id = 0, !.heartbeat_task_id = 0]
    IN  IF w3.ws = "open"
        THEN [c |-> Log([w3 EXCEPT !.ws = "closed"], "ws.close"), hb |-> h2, await |-> TRUE]
        ELSE [c |-> disconnect_end(w3), hb |-> h2, await |-> FALSE]

\* disconnect up to its await of ws.close(), which sets the socket's closed flag
\* before it suspends, and to the end when there is no open socket
disconnect_begin(w, h) ==
    LET w1 == SetState(w, "closed")
        h1 == IF w1.check_task_id # 0 THEN unregister(h, w1.check_task_id).hb ELSE h
        w2 == [w1 EXCEPT !.check_task_id = 0]
        h2 == IF w2.heartbeat_task_id # 0 THEN unregister(h1, w2.heartbeat_task_id).hb ELSE h1
        w3 == [w2 EXCEPT !.heartbeat_task_id = 0]
    IN  IF w3.ws = "open"
        THEN [c |-> Log([w3 EXCEPT !.ws = "closed"], "ws.close"), hb |-> h2, await |-> TRUE]
        ELSE [c |-> disconnect_end(w3), hb |-> h2, await |-> FALSE]

----------------------------------------------------------------------------
(* Message routing of the exchange adapters (exchange/bybit/bybit_websocket.py,
   exchange/gate/gate_spot_websocket.py, exchange/binance/binance_spot_websocket.py) *)

\* a subscription key is a string, kept here as its sequence of characters
Symbols == {"a", "b"}
Keys == UNION {[1..n -> Symbols] : n \in 1..MaxKeyLen}

Adapters == {"bybit", "gate", "binance"}

\* self._subscriptions = {} : the keys in insertion order, a callback being named by the
\* key it was stored under
AdapterInit ==
    [kind |-> "bybit", subscriptions |-> <<>>, invoked |-> <<>>, authenticated |-> FALSE]

HasKey(subs, key) == \E i \in 1..Len(subs) : subs[i] = key

\* topic.startswith(subscribed_topic)
StartsWith(s, p) == Len(p) <= Len(s) /\ SubSeq(s, 1, Len(p)) = p

\* subscribed_topic in topic
Contains(s, p) == \E i \in 1..(Len(s) - Len(p) + 1) : SubSeq(s, i, i + Len(p) - 1) = p

\* self._subscriptions[topic] = callback
subscribe(subs, key) == IF HasKey(subs, key) THEN subs ELSE Append(subs, key)

\* self._subscriptions.pop(topic, None) / del self._subscriptions[channel]
unsubscribe(subs, key) == SelectSeq(subs, LAMBDA k : k # key)

\* BinanceSpotWebSocketBase.unsubscribe sends the UNSUBSCRIBE request and leaves
\* self._subscriptions alone
binance_unsubscribe(subs, key) == subs

\* unsubscribe of an adapter of this kind
unsubscribe_of(kind, subs, key) ==
    IF kind = "binance" THEN binance_unsubscribe(subs, key) ELSE unsubscribe(subs, key)

\* BybitWebSocketBase._handle_topic_message: the callbacks invoked for a frame
handle_topic_message(subs, topic) ==
    LET hits == {i \in 1..Len(subs) : StartsWith(topic, subs[i]) \/ Contains(topic, subs[i])}
    IN  IF hits = {} THEN <<>>
        ELSE <<subs[CHOOSE i \in hits : \A j \in hits : i <= j]>>

\* GateSpotWebSocketBase.process (event update) and BinanceSpotWebSocketBase.process
\* (combined stream): the callbacks invoked for a frame
process(subs, key) == IF HasKey(subs, key) THEN <<key>> ELSE <<>>

\* GateSpotWebSocketBase.process for a frame of the channel spot.login
gate_process_login(a, error) == [a EXCEPT !.authenticated = ~error]

\* GateSpotWebSocketBase.on_disconnect
gate_on_disconnect(a) == [a EXCEPT !.authenticated = FALSE]

\* GateSpotWebSocketBase.subscribe on a private channel with a callback; open says
\* whether the socket is open, which is all the adapter's send_json asks for
gate_subscribe(a, key, open) ==
    IF ~a.authenticated
    THEN [adapter |-> a, ret |-> "False", sent |-> FALSE]
    ELSE [adapter |-> [a EXCEPT !.subscriptions = subscribe(@, key)],
          ret |-> "True", sent |-> open]

\* the callbacks an adapter of this kind invokes for a frame
route(kind, subs, key) ==
    IF kind = "bybit" THEN handle_topic_message(subs, key) ELSE process(subs, key)

----------------------------------------------------------------------------
(* The scheduler's operations as actions *)

\* heartbeat.start(); lastOp.arg is the count of the tick it ran, 0 when it ran none
HBStart ==
    /\ ~hb.is_running => hist.starts < MaxStarts
    /\ LET r == start(hb)
       IN  /\ hb' = r.hb
           /\ launched' = IF hb.is_running THEN launched ELSE LaunchedIds(r.ran)
           /\ fired' = Launch(r.ran)
           /\ hist' = IF hb.is_running THEN hist
                      ELSE [hist EXCEPT !.starts = @ + 1]
           /\ lastOp' = Op("start", IF hb.is_running THEN 0 ELSE r.hb.count, "None", "none")
           /\ procs' = Spawn(r.ran)
    /\ UNCHANGED <<uuid, c, cfg, adapter, rx, peer>>

\* heartbeat.stop()
HBStop ==
    /\ hb' = stop(hb)
    /\ lastOp' = Op("stop", 0, "None", "none")
    /\ UNCHANGED <<uuid, launched, fired, hist, c, cfg, procs, adapter, rx, peer>>

\* the event loop runs a ticker scheduled with call_later; lastOp.arg as for start
HBTimer(maxCount) ==
    /\ hb.timers > 0
    /\ hb.is_running => hb.count < maxCount
    /\ LET r == ticker([hb EXCEPT !.timers = @ - 1])
       IN  /\ hb' = r.hb
           /\ launched' = IF hb.is_running THEN LaunchedIds(r.ran) ELSE launched
           /\ fired' = Launch(r.ran)
           /\ lastOp' = Op("tick", IF hb.is_running THEN r.hb.count ELSE 0, "None", "none")
           /\ procs' = Spawn(r.ran)
    /\ UNCHANGED <<uuid, hist, c, cfg, adapter, rx, peer>>

\* heartbeat.register(cb, interval) by some client of the scheduler
HBRegister(interval) ==
    /\ uuid < MaxIds
    /\ LET r == register(hb, uuid + 1, "cb", interval)
       IN  /\ hb' = r.hb
           /\ uuid' = IF r.exc = "none" THEN uuid + 1 ELSE uuid
           /\ hist' = IF r.exc = "none" /\ hist.starts = 0
                      THEN [hist EXCEPT !.early = @ \cup {uuid + 1}]
                      ELSE hist
           /\ lastOp' = Op("register", interval, r.ret, r.exc)
    /\ UNCHANGED <<launched, fired, c, cfg, procs, adapter, rx, peer>>

\* heartbeat.unregister(task_id)
HBUnregister(task_id) ==
    /\ LET r == unregister(hb, task_id)
       IN  /\ hb' = r.hb
           /\ lastOp' = Op("unregister", task_id, r.ret, "none")
    /\ hist' = [hist EXCEPT !.unregs = @ \cup {task_id}]
    /\ UNCHANGED <<uuid, launched, fired, c, cfg, procs, adapter, rx, peer>>

\* heartbeat.clear_tasks()
HBClear ==
    /\ hb.tasks # <<>>
    /\ hb' = clear_tasks(hb)
    /\ hist' = [hist EXCEPT !.cleared = @ \cup TaskIds(hb.tasks)]
    /\ lastOp' = Op("clear_tasks", 0, "None", "none")
    /\ UNCHANGED <<uuid, launched, fired, c, cfg, procs, adapter, rx, peer>>

\* the callbacks registered by a client of the scheduler: an async function that
\* completes, one that raises while its task runs, one whose call raises (its
\* arguments do not fit)
Callbacks == {"cb", "cb_raises", "cb_bad_call"}

\* heartbeat.register(func, interval) with one of these callbacks
HBRegisterFunc(func, interval) ==
    /\ uuid < MaxIds
    /\ LET r == register(hb, uuid + 1, func, interval)
       IN  /\ hb' = r.hb
           /\ uuid' = IF r.exc = "none" THEN uuid + 1 ELSE uuid
           /\ hist' = IF r.exc = "none" /\ hist.starts = 0
                      THEN [hist EXCEPT !.early = @ \cup {uuid + 1}]
                      ELSE hist
           /\ lastOp' = Op("register", interval, r.ret, r.exc)
    /\ UNCHANGED <<launched, fired, c, cfg, procs, adapter, rx, peer>>

\* the task of a launched callback raises: the exception stays in the asyncio task
CallbackRaises ==
    /\ procs.cbs > 0
    /\ procs' = [procs EXCEPT !.cbs = @ - 1]
    /\ lastOp' = Op("callback_raised", 0, "None", "none")
    /\ UNCHANGED <<hb, uuid, launched, fired, hist, c, cfg, adapter, rx, peer>>

----------------------------------------------------------------------------
(* Specification of the scheduler alone *)

InitHB ==
    /\ hb = HeartBeatInit
    /\ uuid = 0
    /\ launched = <<>>
    /\ fired = NotCounted
    /\ hist = InitHist
    /\ lastOp = Op("init", 0, "None", "none")
    /\ c = WebSocketClientInit
    /\ cfg = DefaultConfig
    /\ procs = ProcsInit
    /\ adapter = AdapterInit
    /\ rx = RxInit
    /\ peer = WebSocketClientInit

NextHB ==
    \/ HBStart
    \/ HBStop
    \/ HBTimer(MaxTicks)
    \/ \E interval \in Intervals : HBRegister(interval)
    \/ \E task_id \in 0..uuid : HBUnregister(task_id)
    \/ HBClear

SpecHB == InitHB /\ [][NextHB]_vars

\* the scheduler started once and left running, tasks registered before or after
NextRun ==
    \/ HBStart
    \/ HBTimer(RunTicks)
    \/ \E interval \in RunIntervals : HBRegister(interval)

InitRun ==
    /\ hb = HeartBeatInit
    /\ uuid = 0
    /\ launched = <<>>
    /\ fired = [id \in Ids |-> 0]
    /\ hist = InitHist
    /\ lastOp = Op("init", 0, "None", "none")
    /\ c = WebSocketClientInit
    /\ cfg = DefaultConfig
    /\ procs = ProcsInit
    /\ adapter = AdapterInit
    /\ rx = RxInit
    /\ peer = WebSocketClientInit

SpecRun == InitRun /\ [][NextRun]_vars

----------------------------------------------------------------------------
(* The client's operations and coroutine steps as actions *)

Fresh == [c EXCEPT !.log = <<>>]

\* client.start(), for as long as it leaves the ids handed out within maxIds
WSStartWithin(maxIds) ==
    /\ uuid + 2 <= maxIds
    /\ LET r == ws_start(Fresh, hb, uuid, cfg)
       IN  /\ c' = r.c
           /\ hb' = r.hb
           /\ uuid' = r.uuid
           /\ procs' = [procs EXCEPT !.connect_tasks = @ + (IF r.spawn THEN 1 ELSE 0)]
           /\ lastOp' = Op("ws_start", 0, "None", r.exc)
    /\ UNCHANGED <<launched, fired, hist, cfg, adapter, rx, peer>>

\* client.start()
WSStart == WSStartWithin(MaxIds)

\* the connect() task created by start() runs up to its first await
ConnectTask ==
    /\ procs.connect_tasks > 0
    /\ LET r == connect_begin(Fresh)
       IN  /\ c' = r.c
           /\ procs' = [procs EXCEPT !.connect_tasks = @ - 1,
                                     !.handshakes = @ + (IF r.await THEN 1 ELSE 0)]
           /\ lastOp' = Op("connect", 0, r.ret, "none")
    /\ UNCHANGED <<hb, uuid, launched, fired, hist, cfg, adapter, rx, peer>>

\* ws_connect returns a socket; the session has to be open for that
HandshakeOk ==
    /\ procs.handshakes > 0
    /\ c.session = "open"
    /\ c' = connect_ok(Fresh)
    /\ procs' = [procs EXCEPT !.handshakes = @ - 1, !.recv_cur = 1,
                              !.recv_old = @ + procs.recv_cur]
    /\ lastOp' = Op("handshake_ok", 0, "True", "none")
    /\ UNCHANGED <<hb, uuid, launched, fired, hist, cfg, adapter, rx, peer>>

\* ws_connect raises
HandshakeFail ==
    /\ procs.handshakes > 0
    /\ c' = connect_fail(Fresh)
    /\ procs' = [procs EXCEPT !.handshakes = @ - 1]
    /\ lastOp' = Op("handshake_fail", 0, "False", "none")
    /\ UNCHANGED <<hb, uuid, launched, fired, hist, cfg, adapter, rx, peer>>

\* client.disconnect() up to its first await
Disconnect ==
    /\ c.ws = "open" => procs.closing < MaxClosing
    /\ LET r == disconnect_begin(Fresh, hb)
       IN  /\ c' = r.c
           /\ hb' = r.hb
           /\ procs' = [procs EXCEPT !.closing = @ + (IF r.await THEN 1 ELSE 0)]
    /\ lastOp' = Op("disconnect", 0, "None", "none")
    /\ UNCHANGED <<uuid, launched, fired, hist, cfg, adapter, rx, peer>>

\* ws.close() returns to a disconnect()
DisconnectDone ==
    /\ procs.closing > 0
    /\ c' = disconnect_end(Fresh)
    /\ procs' = [procs EXCEPT !.closing = @ - 1]
    /\ lastOp' = Op("disconnect_done", 0, "None", "none")
    /\ UNCHANGED <<hb, uuid, launched, fired, hist, cfg, adapter, rx, peer>>

\* the transport closes the current socket without the receive loop having seen it yet
SocketClosed ==
    /\ c.ws = "open"
    /\ c' = Log([Fresh EXCEPT !.ws = "closed"], "socket_closed")
    /\ lastOp' = Op("socket_closed", 0, "None", "none")
    /\ UNCHANGED <<hb, uuid, launched, fired, hist, cfg, procs, adapter, rx, peer>>

\* a receive loop gets a CLOSED or ERROR message or an exception from its socket, which
\* is closed by then: _handle_disconnect runs and the loop is over
RecvError(which) ==
    /\ procs[which] > 0
    /\ LET w == IF which = "recv_cur" THEN [Fresh EXCEPT !.ws = "closed"] ELSE Fresh
           r == handle_disconnect(w, cfg)
       IN  /\ c' = r.c
           /\ procs' = [procs EXCEPT ![which] = @ - 1,
                                     !.sleepers = @ + (IF r.sleep THEN 1 ELSE 0)]
    /\ lastOp' = Op("recv_error", IF which = "recv_cur" THEN 0 ELSE 1, "None", "none")
    /\ UNCHANGED <<hb, uuid, launched, fired, hist, cfg, adapter, rx, peer>>

\* the iteration over a closed socket ends: the loop is over without a word
RecvEnd(which) ==
    /\ procs[which] > 0
    /\ which = "recv_cur" => c.ws = "closed"
    /\ c' = Fresh
    /\ procs' = [procs EXCEPT ![which] = @ - 1]
    /\ lastOp' = Op("recv_end", IF which = "recv_cur" THEN 0 ELSE 1, "None", "none")
    /\ UNCHANGED <<hb, uuid, launched, fired, hist, cfg, adapter, rx, peer>>

\* asyncio.sleep(wait_time) of a _reconnect returns: await self.connect()
ReconnectWake ==
    /\ procs.sleepers > 0
    /\ LET r == connect_begin(Fresh)
       IN  /\ c' = r.c
           /\ procs' = [procs EXCEPT !.sleepers = @ - 1,
                                     !.handshakes = @ + (IF r.await THEN 1 ELSE 0)]
           /\ lastOp' = Op("reconnect_wake", 0, r.ret, "none")
    /\ UNCHANGED <<hb, uuid, launched, fired, hist, cfg, adapter, rx, peer>>

\* a launched _check_connection runs
CheckRun ==
    /\ procs.checks > 0
    /\ LET r == check_connection(Fresh, cfg)
       IN  /\ c' = r.c
           /\ procs' = [procs EXCEPT !.checks = @ - 1,
                                     !.sleepers = @ + (IF r.sleep THEN 1 ELSE 0)]
    /\ lastOp' = Op("check", 0, "None", "none")
    /\ UNCHANGED <<hb, uuid, launched, fired, hist, cfg, adapter, rx, peer>>

\* client.send_json(data) / client.send_text(text)
Send(kind, ok) ==
    /\ LET r == IF kind = "send_json" THEN send_json(Fresh, ok) ELSE send_text(Fresh, ok)
       IN  /\ c' = r.c
           /\ lastOp' = Op(kind, IF ok THEN 1 ELSE 0, r.ret, "none")
    /\ UNCHANGED <<hb, uuid, launched, fired, hist, cfg, procs, adapter, rx, peer>>

\* a launched _send_heartbeat runs
HbRun(ok) ==
    /\ procs.hbs > 0
    /\ c' = send_heartbeat(Fresh, cfg, ok)
    /\ procs' = [procs EXCEPT !.hbs = @ - 1]
    /\ lastOp' = Op("send_heartbeat", IF ok THEN 1 ELSE 0, "None", "none")
    /\ UNCHANGED <<hb, uuid, launched, fired, hist, cfg, adapter, rx, peer>>

----------------------------------------------------------------------------
(* Specification of the task table under change: a client's start() and disconnect()
   and callbacks that register and unregister when their tasks run *)

\* the task of a launched callback runs and registers a task
CallbackRegisters(interval) ==
    /\ procs.cbs > 0
    /\ uuid < MaxIds
    /\ LET r == register(hb, uuid + 1, "cb", interval)
       IN  /\ hb' = r.hb
           /\ uuid' = IF r.exc = "none" THEN uuid + 1 ELSE uuid
           /\ lastOp' = Op("callback_registers", interval, r.ret, r.exc)
    /\ procs' = [procs EXCEPT !.cbs = @ - 1]
    /\ UNCHANGED <<launched, fired, hist, c, cfg, adapter, rx, peer>>

\* the task of a launched callback runs and unregisters a task
CallbackUnregisters(task_id) ==
    /\ procs.cbs > 0
    /\ LET r == unregister(hb, task_id)
       IN  /\ hb' = r.hb
           /\ lastOp' = Op("callback_unregisters", task_id, r.ret, "none")
    /\ hist' = [hist EXCEPT !.unregs = @ \cup {task_id}]
    /\ procs' = [procs EXCEPT !.cbs = @ - 1]
    /\ UNCHANGED <<uuid, launched, fired, c, cfg, adapter, rx, peer>>

NextTable ==
    \/ HBStart
    \/ HBTimer(MaxTicks)
    \/ \E interval \in {1, 2} : HBRegisterFunc("cb_modifies", interval)
    \/ \E interval \in {1, 2} : CallbackRegisters(interval)
    \/ \E task_id \in 1..uuid : CallbackUnregisters(task_id)
    \/ WSStart
    \/ Disconnect

SpecTable == InitHB /\ [][NextTable]_vars

----------------------------------------------------------------------------
(* Specification of two clients on the one scheduler, each of which may be started
   more than once *)

\* the callbacks a client registers are its bound methods: those of the second client
\* are other functions than those of the first
PeerFunc(func) ==
    IF func = "_check_connection" THEN "peer._check_connection"
    ELSE IF func = "_send_heartbeat" THEN "peer._send_heartbeat"
    ELSE func

\* the tasks with ids above u are those the second client has just registered
PeerOwned(h, u) ==
    [h EXCEPT !.tasks = [i \in 1..Len(h.tasks) |->
        IF h.tasks[i].id > u
        THEN [h.tasks[i] EXCEPT !.func = PeerFunc(h.tasks[i].func)]
        ELSE h.tasks[i]]]

\* start() of the second client; its connect() task is not followed
PeerStart ==
    /\ uuid + 2 <= MaxClientIds
    /\ LET r == ws_start([peer EXCEPT !.log = <<>>], hb, uuid, cfg)
       IN  /\ peer' = r.c
           /\ hb' = PeerOwned(r.hb, uuid)
           /\ uuid' = r.uuid
           /\ lastOp' = Op("peer_start", 0, "None", r.exc)
    /\ UNCHANGED <<launched, fired, hist, c, cfg, procs, adapter, rx>>

\* disconnect() of the second client, which has no socket
PeerDisconnect ==
    /\ LET r == disconnect_begin([peer EXCEPT !.log = <<>>], hb)
       IN  /\ peer' = r.c
           /\ hb' = r.hb
    /\ lastOp' = Op("peer_disconnect", 0, "None", "none")
    /\ UNCHANGED <<uuid, launched, fired, hist, c, cfg, procs, adapter, rx>>

\* both clients with the liveness check on every tick and the heartbeat on every second
SharedConfigs ==
    [auto_reconnect : {FALSE}, max_reconnect_attempts : {0}, check_conn_interval : {1},
     send_hb_interval : {0, 2}, heartbeat_msg : {"None"}]

InitShared ==
    /\ hb = HeartBeatInit
    /\ uuid = 0
    /\ launched = <<>>
    /\ fired = NotCounted
    /\ hist = InitHist
    /\ lastOp = Op("init", 0, "None", "none")
    /\ c = WebSocketClientInit
    /\ cfg \in SharedConfigs
    /\ procs = ProcsInit
    /\ adapter = AdapterInit
    /\ rx = RxInit
    /\ peer = WebSocketClientInit

NextShared ==
    \/ HBStart
    \/ HBTimer(MaxWsTicks)
    \/ WSStartWithin(MaxClientIds)
    \/ ConnectTask
    \/ HandshakeOk
    \/ HandshakeFail
    \/ Disconnect
    \/ DisconnectDone
    \/ PeerStart
    \/ PeerDisconnect

SpecShared == InitShared /\ [][NextShared]_vars

----------------------------------------------------------------------------
(* Specification of a Gate.io private-channel client: its login, its subscriptions and
   the lifecycle of its connection *)

\* the receive loop hands a spot.login response to process
LoginResponse(error) ==
    /\ procs.recv_cur > 0 /\ c.ws = "open"
    /\ adapter' = gate_process_login(adapter, error)
    /\ c' = Fresh
    /\ lastOp' = Op("login_response", IF error THEN "error" ELSE "ok", "None", "none")
    /\ UNCHANGED <<hb, uuid, launched, fired, hist, cfg, procs, rx, peer>>

\* the receive loop gets an ERROR message: _handle_disconnect with the adapter's
\* on_disconnect as the hook
GateRecvError ==
    /\ procs.recv_cur > 0
    /\ LET r == handle_disconnect([Fresh EXCEPT !.ws = "closed"], cfg)
       IN  /\ c' = r.c
           /\ adapter' = IF \E i \in 1..Len(r.c.log) : r.c.log[i] = "on_disconnect"
                         THEN gate_on_disconnect(adapter) ELSE adapter
           /\ procs' = [procs EXCEPT !.recv_cur = @ - 1,
                                     !.sleepers = @ + (IF r.sleep THEN 1 ELSE 0)]
    /\ lastOp' = Op("recv_error", 0, "None", "none")
    /\ UNCHANGED <<hb, uuid, launched, fired, hist, cfg, rx, peer>>

\* client.subscribe(channel, payload, callback)
GateSubscribe(key) ==
    /\ Len(adapter.subscriptions) < MaxSubs \/ HasKey(adapter.subscriptions, key)
    /\ LET r == gate_subscribe(adapter, key, c.ws = "open")
       IN  /\ adapter' = r.adapter
           /\ c' = IF r.sent THEN Log(Fresh, "frame_sent") ELSE Fresh
           /\ lastOp' = Op("gate_subscribe", key, r.ret, "none")
    /\ UNCHANGED <<hb, uuid, launched, fired, hist, cfg, procs, rx, peer>>

AuthConfigs ==
    [auto_reconnect : BOOLEAN, max_reconnect_attempts : {0}, check_conn_interval : {10},
     send_hb_interval : {30}, heartbeat_msg : {"None"}]

InitAuth ==
    /\ hb = HeartBeatInit
    /\ uuid = 0
    /\ launched = <<>>
    /\ fired = NotCounted
    /\ hist = InitHist
    /\ lastOp = Op("init", 0, "None", "none")
    /\ c = WebSocketClientInit
    /\ cfg \in AuthConfigs
    /\ procs = ProcsInit
    /\ adapter = [AdapterInit EXCEPT !.kind = "gate"]
    /\ rx = RxInit
    /\ peer = WebSocketClientInit

NextAuth ==
    \/ WSStartWithin(MaxClientIds)
    \/ ConnectTask
    \/ HandshakeOk
    \/ HandshakeFail
    \/ \E error \in BOOLEAN : LoginResponse(error)
    \/ GateRecvError
    \/ ReconnectWake
    \/ Disconnect
    \/ DisconnectDone
    \/ \E key \in Keys : GateSubscribe(key)

SpecAuth == InitAuth /\ [][NextAuth]_vars

----------------------------------------------------------------------------
(* Specification of the scheduler with callbacks that fail *)

NextFail ==
    \/ HBStart
    \/ HBStop
    \/ HBTimer(MaxTicks)
    \/ \E func \in Callbacks, interval \in {1, 2} : HBRegisterFunc(func, interval)
    \/ CallbackRaises

SpecFail == InitHB /\ [][NextFail]_vars

----------------------------------------------------------------------------
(* Specification of one client on the scheduler *)

\* constructor arguments tried: the liveness check on every tick; the heartbeat
\* interval of the Binance adapters (0) and the default (10), which is not due within
\* the ticks followed here
Configs ==
    [auto_reconnect : BOOLEAN, max_reconnect_attempts : {0, 1}, check_conn_interval : {1},
     send_hb_interval : {0, 10}, heartbeat_msg : {"dict"}]

Init ==
    /\ hb = HeartBeatInit
    /\ uuid = 0
    /\ launched = <<>>
    /\ fired = NotCounted
    /\ hist = InitHist
    /\ lastOp = Op("init", 0, "None", "none")
    /\ c = WebSocketClientInit
    /\ cfg \in Configs
    /\ procs = ProcsInit
    /\ adapter = AdapterInit
    /\ rx = RxInit
    /\ peer = WebSocketClientInit

Next ==
    \/ HBStart
    \/ HBTimer(MaxWsTicks)
    \/ WSStart
    \/ ConnectTask
    \/ HandshakeOk
    \/ HandshakeFail
    \/ Disconnect
    \/ DisconnectDone
    \/ SocketClosed
    \/ \E which \in {"recv_cur", "recv_old"} : RecvError(which)
    \/ \E which \in {"recv_cur", "recv_old"} : RecvEnd(which)
    \/ ReconnectWake
    \/ CheckRun
    \/ \E kind \in {"send_json", "send_text"}, ok \in BOOLEAN : Send(kind, ok)

Spec == Init /\ [][Next]_vars

----------------------------------------------------------------------------
(* Specification of a client whose on_disconnect hook may raise *)

\* the receive loop gets a CLOSED or ERROR message; raises1 and raises2 say whether
\* the first and the second call of the hook raise
HookRecvError(raises1, raises2) ==
    /\ procs.recv_cur > 0
    /\ LET r == receive_loop_disconnect([Fresh EXCEPT !.ws = "closed"], cfg, raises1, raises2)
       IN  /\ c' = r.c
           /\ procs' = [procs EXCEPT !.recv_cur = @ - 1,
                                     !.sleepers = @ + (IF r.sleep THEN 1 ELSE 0)]
           /\ lastOp' = Op("recv_error", r.raised, "None", r.exc)
    /\ UNCHANGED <<hb, uuid, launched, fired, hist, cfg, adapter, rx, peer>>

\* a launched _check_connection runs
HookCheckRun(raises) ==
    /\ procs.checks > 0
    /\ LET r == check_connection_hook(Fresh, cfg, raises)
       IN  /\ c' = r.c
           /\ procs' = [procs EXCEPT !.checks = @ - 1,
                                     !.sleepers = @ + (IF r.sleep THEN 1 ELSE 0)]
           /\ lastOp' = Op("check", r.raised, "None", r.exc)
    /\ UNCHANGED <<hb, uuid, launched, fired, hist, cfg, adapter, rx, peer>>

NextHook ==
    \/ HBStart
    \/ HBTimer(MaxWsTicks)
    \/ WSStart
    \/ ConnectTask
    \/ HandshakeOk
    \/ HandshakeFail
    \/ SocketClosed
    \/ \E raises1 \in BOOLEAN, raises2 \in BOOLEAN : HookRecvError(raises1, raises2)
    \/ ReconnectWake
    \/ \E raises \in BOOLEAN : HookCheckRun(raises)

SpecHook == Init /\ [][NextHook]_vars

----------------------------------------------------------------------------
(* Specification of the backoff computation of _reconnect: the reconnect counter is
   drawn from 0..MaxCounter and _handle_disconnect is applied to it *)

\* _handle_disconnect entered with no reconnect waiting and no handshake in flight
HandleDisconnect ==
    /\ procs.sleepers = 0 /\ procs.handshakes = 0
    /\ c.reconnect_count < MaxCounter
    /\ LET r == handle_disconnect(Fresh, cfg)
       IN  /\ c' = r.c
           /\ procs' = [procs EXCEPT !.sleepers = @ + (IF r.sleep THEN 1 ELSE 0)]
    /\ lastOp' = Op("handle_disconnect", c.reconnect_count, "None", "none")
    /\ UNCHANGED <<hb, uuid, launched, fired, hist, cfg, adapter, rx, peer>>

InitBackoff ==
    /\ hb = HeartBeatInit
    /\ uuid = 0
    /\ launched = <<>>
    /\ fired = NotCounted
    /\ hist = InitHist
    /\ lastOp = Op("init", 0, "None", "none")
    /\ \E n \in 0..MaxCounter :
          c = [WebSocketClientInit EXCEPT !.reconnect_count = n]
    /\ cfg \in Configs
    /\ procs = ProcsInit
    /\ adapter = AdapterInit
    /\ rx = RxInit
    /\ peer = WebSocketClientInit

NextBackoff ==
    \/ HandleDisconnect
    \/ ReconnectWake
    \/ HandshakeFail

SpecBackoff == InitBackoff /\ [][NextBackoff]_vars

----------------------------------------------------------------------------
(* Specification of recovery: one client with auto-reconnect, never disconnect()ed,
   on a loop that runs every coroutine that is ready *)

RecoverConfigs ==
    [auto_reconnect : {TRUE}, max_reconnect_attempts : {0, 2}, check_conn_interval : {1},
     send_hb_interval : {10}, heartbeat_msg : {"dict"}]

InitRecover ==
    /\ hb = HeartBeatInit
    /\ uuid = 0
    /\ launched = <<>>
    /\ fired = NotCounted
    /\ hist = InitHist
    /\ lastOp = Op("init", 0, "None", "none")
    /\ c = WebSocketClientInit
    /\ cfg \in RecoverConfigs
    /\ procs = ProcsInit
    /\ adapter = AdapterInit
    /\ rx = RxInit
    /\ peer = WebSocketClientInit

NextRecover ==
    \/ HBStart
    \/ HBTimer(MaxWsTicks)
    \/ WSStart
    \/ ConnectTask
    \/ HandshakeOk
    \/ HandshakeFail
    \/ SocketClosed
    \/ \E which \in {"recv_cur", "recv_old"} : RecvError(which)
    \/ \E which \in {"recv_cur", "recv_old"} : RecvEnd(which)
    \/ ReconnectWake
    \/ CheckRun

\* the event loop runs a ready task, a timer fires, a sleep ends, a handshake ends one
\* way or the other; a transport that is asked again and again accepts at last
SpecRecover ==
    /\ InitRecover /\ [][NextRecover]_vars
    /\ WF_vars(HBTimer(MaxWsTicks))
    /\ WF_vars(ConnectTask)
    /\ WF_vars(HandshakeOk \/ HandshakeFail)
    /\ SF_vars(HandshakeOk)
    /\ WF_vars(ReconnectWake)
    /\ WF_vars(CheckRun)

----------------------------------------------------------------------------
(* Specification of the heartbeat sender: one client whose heartbeat task is due on
   every tick, with each kind of payload *)

HeartbeatConfigs ==
    [auto_reconnect : {FALSE}, max_reconnect_attempts : {0}, check_conn_interval : {10},
     send_hb_interval : {1}, heartbeat_msg : {"None", "dict", "str", "other"}]

InitHeartbeat ==
    /\ hb = HeartBeatInit
    /\ uuid = 0
    /\ launched = <<>>
    /\ fired = NotCounted
    /\ hist = InitHist
    /\ lastOp = Op("init", 0, "None", "none")
    /\ c = WebSocketClientInit
    /\ cfg \in HeartbeatConfigs
    /\ procs = ProcsInit
    /\ adapter = AdapterInit
    /\ rx = RxInit
    /\ peer = WebSocketClientInit

NextHeartbeat ==
    \/ HBStart
    \/ HBTimer(MaxWsTicks)
    \/ WSStart
    \/ ConnectTask
    \/ HandshakeOk
    \/ HandshakeFail
    \/ Disconnect
    \/ DisconnectDone
    \/ SocketClosed
    \/ RecvError("recv_cur")
    \/ \E ok \in BOOLEAN : HbRun(ok)

SpecHeartbeat == InitHeartbeat /\ [][NextHeartbeat]_vars

----------------------------------------------------------------------------
(* Specification of the receive loop: one client, the messages of its sockets one by
   one, hooks that return or raise *)

\* the receive loop gets the next message of its socket
RecvFrame(msg) ==
    /\ procs.recv_cur > 0 /\ ~rx.at_hook
    /\ c.ws = "open"
    /\ Len(rx.received) < MaxFrames
    /\ LET w == IF msg.type \in {"CLOSE", "ERROR"} THEN [Fresh EXCEPT !.ws = "closed"]
                ELSE Fresh
           r == receive_loop(w, rx, cfg, msg)
       IN  /\ c' = r.c
           /\ rx' = r.rx
           /\ procs' = [procs EXCEPT !.recv_cur = @ - (IF r.over THEN 1 ELSE 0),
                                     !.sleepers = @ + (IF r.sleep THEN 1 ELSE 0)]
    /\ lastOp' = Op("recv", msg.type, "None", "none")
    /\ UNCHANGED <<hb, uuid, launched, fired, hist, cfg, adapter, peer>>

\* the hook called for message n returns or raises
HookEnd(n, raises) ==
    /\ n \in rx.running
    /\ LET r == handle_message_end(Fresh, rx, cfg, n, raises)
       IN  /\ c' = r.c
           /\ rx' = r.rx
           /\ procs' = [procs EXCEPT !.recv_cur = @ - (IF r.over THEN 1 ELSE 0),
                                     !.sleepers = @ + (IF r.sleep THEN 1 ELSE 0)]
    /\ lastOp' = Op(IF raises THEN "hook_raised" ELSE "hook_returned", n, "None", "none")
    /\ UNCHANGED <<hb, uuid, launched, fired, hist, cfg, adapter, peer>>

\* the loop comes back to a socket that disconnect() closed: the iteration ends
RecvStop ==
    /\ ~rx.at_hook
    /\ RecvEnd("recv_cur")

RecvConfigs ==
    [auto_reconnect : BOOLEAN, max_reconnect_attempts : {0}, check_conn_interval : {10},
     send_hb_interval : {10}, heartbeat_msg : {"None"}]

InitRecv ==
    /\ hb = HeartBeatInit
    /\ uuid = 0
    /\ launched = <<>>
    /\ fired = NotCounted
    /\ hist = InitHist
    /\ lastOp = Op("init", 0, "None", "none")
    /\ c = WebSocketClientInit
    /\ cfg \in RecvConfigs
    /\ procs = ProcsInit
    /\ adapter = AdapterInit
    /\ rx = RxInit
    /\ peer = WebSocketClientInit

NextRecv ==
    \/ WSStart
    \/ ConnectTask
    \/ HandshakeOk
    \/ HandshakeFail
    \/ \E msg \in Msgs : RecvFrame(msg)
    \/ \E n \in 1..MaxFrames, raises \in BOOLEAN : HookEnd(n, raises)
    \/ RecvStop
    \/ ReconnectWake
    \/ Disconnect
    \/ DisconnectDone

SpecRecv == InitRecv /\ [][NextRecv]_vars

----------------------------------------------------------------------------
(* Specification of the routing of frames by an adapter *)

\* subscribe(key, callback)
Subscribe(key) ==
    /\ Len(adapter.subscriptions) < MaxSubs \/ HasKey(adapter.subscriptions, key)
    /\ adapter' = [adapter EXCEPT !.subscriptions = subscribe(@, key), !.invoked = <<>>]
    /\ lastOp' = Op("subscribe", key, "None", "none")
    /\ UNCHANGED <<hb, uuid, launched, fired, hist, c, cfg, procs, rx, peer>>

\* unsubscribe(key)
Unsubscribe(key) ==
    /\ adapter' = [adapter EXCEPT
                      !.subscriptions = unsubscribe_of(adapter.kind, @, key),
                      !.invoked = <<>>]
    /\ lastOp' = Op("unsubscribe", key, "None", "none")
    /\ UNCHANGED <<hb, uuid, launched, fired, hist, c, cfg, procs, rx, peer>>

\* a decoded data frame with this key reaches process()
Frame(key) ==
    /\ adapter' = [adapter EXCEPT
                      !.invoked = route(adapter.kind, adapter.subscriptions, key)]
    /\ lastOp' = Op("frame", key, "None", "none")
    /\ UNCHANGED <<hb, uuid, launched, fired, hist, c, cfg, procs, rx, peer>>

InitRoute ==
    /\ hb = HeartBeatInit
    /\ uuid = 0
    /\ launched = <<>>
    /\ fired = NotCounted
    /\ hist = InitHist
    /\ lastOp = Op("init", 0, "None", "none")
    /\ c = WebSocketClientInit
    /\ cfg = DefaultConfig
    /\ procs = ProcsInit
    /\ \E kind \in Adapters : adapter = [AdapterInit EXCEPT !.kind = kind]
    /\ rx = RxInit
    /\ peer = WebSocketClientInit

NextRoute ==
    \/ \E key \in Keys : Subscribe(key)
    \/ \E key \in Keys : Unsubscribe(key)
    \/ \E key \in Keys : Frame(key)

SpecRoute == InitRoute /\ [][NextRoute]_vars

----------------------------------------------------------------------------
(* Properties of the scheduler *)

TimesIn(seq, x) == Cardinality({i \in 1..Len(seq) : seq[i] = x})

\* C1: register() with an interval <= 0 raises ValueError and leaves the task table
\* as it was: no task is stored, the task count is the same.
C1_RegisterRejectsNonPositive ==
    [][(lastOp'.op = "register" /\ lastOp'.arg <= 0)
        => /\ lastOp'.exc = "ValueError"
           /\ hb'.tasks = hb.tasks
           /\ Len(hb'.tasks) = Len(hb.tasks)
           /\ uuid' = uuid]_vars

C1_Witness ==
    /\ lastOp.op = "register" /\ lastOp.arg <= 0 /\ lastOp.exc = "ValueError"
    /\ Len(hb.tasks) = 1

\* C2: for an id register() returned, the first unregister(id) returns True and removes
\* exactly that task, every later unregister(id) returns False and changes nothing;
\* unregister of an id that was never issued returns False. (An id clear_tasks()
\* removed is outside the claim, which is about register/unregister sequences.)
C2_UnregisterTrueOnce ==
    [][lastOp'.op = "unregister"
        => LET id == lastOp'.arg
               first == id \in 1..uuid /\ id \notin hist.unregs
           IN  /\ lastOp'.exc = "none"
               /\ id \notin hist.cleared =>
                    IF first
                    THEN /\ lastOp'.ret = "True"
                         /\ TimesIn(LaunchedIds(hb.tasks), id) = 1
                         /\ hb'.tasks = SelectSeq(hb.tasks, LAMBDA t : t.id # id)
                         /\ Len(hb'.tasks) = Len(hb.tasks) - 1
                    ELSE /\ lastOp'.ret = "False"
                         /\ hb'.tasks = hb.tasks]_vars

C2_Witness ==
    /\ lastOp.op = "unregister" /\ lastOp.ret = "False"
    /\ lastOp.arg \in 1..uuid /\ lastOp.arg \notin hist.cleared
    /\ hb.tasks # <<>>

\* C3: a tick with counter value c launches each registered task whose interval divides
\* c exactly once, and no registered task whose interval does not divide c.
C3_TickLaunchesDueTasksOnce ==
    (lastOp.op \in {"tick", "start"} /\ lastOp.arg > 0)
        => /\ lastOp.arg = hb.count
           /\ \A i \in 1..Len(hb.tasks) :
                TimesIn(launched, hb.tasks[i].id) =
                    IF hb.count % hb.tasks[i].interval = 0 THEN 1 ELSE 0
           /\ \A j \in 1..Len(launched) : launched[j] \in TaskIds(hb.tasks)

C3_Witness ==
    /\ lastOp.op = "tick" /\ lastOp.arg = 3
    /\ \E i, j \in 1..Len(hb.tasks) :
        /\ TimesIn(launched, hb.tasks[i].id) = 1
        /\ TimesIn(launched, hb.tasks[j].id) = 0

\* C4: on a fresh scheduler started once, a task registered before start() with
\* interval k has been launched floor(n/k) times after n ticks; with intervals 3 and 5,
\* after 15 ticks the tasks have fired 5 and 3 times and tick 15 launches both.
C4_LaunchCountIsFloor ==
    hist.starts = 1 =>
        \A i \in 1..Len(hb.tasks) :
            LET t == hb.tasks[i]
            IN  t.id \in hist.early =>
                    /\ fired[t.id] = hb.count \div t.interval
                    /\ (hb.count = 15 /\ t.interval = 3) =>
                            fired[t.id] = 5 /\ TimesIn(launched, t.id) = 1
                    /\ (hb.count = 15 /\ t.interval = 5) =>
                            fired[t.id] = 3 /\ TimesIn(launched, t.id) = 1

C4_Witness ==
    /\ hist.starts = 1 /\ hb.count = 15 /\ lastOp.op = "tick"
    /\ \E i, j \in 1..Len(hb.tasks) :
        /\ hb.tasks[i].interval = 3 /\ hb.tasks[j].interval = 5
        /\ {hb.tasks[i].id, hb.tasks[j].id} \subseteq hist.early
        /\ fired[hb.tasks[i].id] = 5 /\ fired[hb.tasks[j].id] = 3
        /\ TimesIn(launched, hb.tasks[i].id) = 1 /\ TimesIn(launched, hb.tasks[j].id) = 1

----------------------------------------------------------------------------
(* Properties of the client *)

\* the steps that enter connect()
ConnectOps == {"connect", "reconnect_wake"}

\* C5: connect() called while the state is Connected or Connecting returns False and
\* leaves the state, the socket handle and the reconnect counter as they are; it does
\* not invoke on_connect and starts no receive loop.
C5_ConnectGuardIsNoop ==
    [][(lastOp'.op \in ConnectOps /\ c.state \in {"connected", "connecting"})
        => /\ lastOp'.ret = "False"
           /\ c'.state = c.state /\ c'.ws = c.ws /\ c'.session = c.session
           /\ c'.reconnect_count = c.reconnect_count
           /\ c'.log = <<>>
           /\ procs'.recv_cur = procs.recv_cur /\ procs'.recv_old = procs.recv_old
           /\ procs'.handshakes = procs.handshakes]_vars

C5_Witness ==
    /\ lastOp.op \in ConnectOps /\ lastOp.ret = "False"
    /\ c.state = "connected" /\ c.log = <<>>

\* C6: connect() never lets an exception out: when the handshake fails it returns False
\* and the state after the call is Disconnected.
C6_ConnectFailureReturnsFalse ==
    /\ lastOp.op \in ConnectOps \cup {"handshake_ok", "handshake_fail"} => lastOp.exc = "none"
    /\ (lastOp.op \in ConnectOps \cup {"handshake_fail"} /\ Logged("ws_connect_raised"))
        => c.state = "disconnected" /\ lastOp.ret = "False"
    /\ lastOp.op = "handshake_fail" => Logged("ws_connect_raised")

C6_Witness ==
    /\ lastOp.op = "handshake_fail" /\ c.state = "disconnected" /\ lastOp.ret = "False"

\* C7: Closed is terminal: once disconnect() has set the state to Closed, no later step
\* changes it, and connect() is never re-entered into Connecting.
C7_ClosedIsTerminal ==
    [][c.state = "closed" => c'.state = "closed" /\ ~ Logged("connecting")']_vars

\* C8: if disconnect() is called while a reconnect is waiting in its backoff delay, then
\* when the delay elapses no connect attempt is made and the state stays Closed.
C8_DisconnectInBackoffStopsReconnect ==
    [][(lastOp'.op = "reconnect_wake" /\ c.state = "closed")
        => /\ c'.state = "closed"
           /\ c'.log = <<>>
           /\ procs'.handshakes = procs.handshakes]_vars

\* C9: for a Connection in Connected state with auto-reconnect enabled, a read error in the
\* receive loop sets Disconnected, invokes on_disconnect, sets Reconnecting and starts the
\* backoff wait, in that order; nothing but the end of the wait removes the waiting
\* reconnect, and when the wait ends in Reconnecting the first state assigned is Connecting.
C9_ReadErrorDrivesReconnect ==
    [][/\ (lastOp'.op = "recv_error" /\ c.state = "connected" /\ cfg.auto_reconnect)
          => /\ c'.log = <<"disconnected", "on_disconnect", "reconnecting", "sleep">>
             /\ c'.state = "reconnecting"
             /\ c'.reconnect_count = 1
             /\ procs'.sleepers = procs.sleepers + 1
       /\ procs'.sleepers < procs.sleepers => lastOp'.op = "reconnect_wake"
       /\ (lastOp'.op = "reconnect_wake" /\ c.state = "reconnecting")
          => /\ c'.log # <<>> /\ Head(c'.log) = "connecting"
             /\ \/ c'.state = "connecting" /\ procs'.handshakes = procs.handshakes + 1
                \/ c'.state = "disconnected" /\ Logged("ws_connect_raised")']_vars

C9_Witness ==
    /\ lastOp.op = "reconnect_wake" /\ c.state = "connecting" /\ c.reconnect_count = 1
    /\ cfg.auto_reconnect /\ c.log = <<"connecting">> /\ procs.recv_cur = 0
    /\ procs.checks > 0

\* C10: the backoff wait before the Nth reconnect attempt, N being the reconnect counter
\* after its increment for that attempt, is min(2*N, 30): 2*N below 15 and 30 from 15 on.
C10_BackoffIsLinearCapped ==
    (lastOp.op = "handle_disconnect" /\ Logged("sleep"))
        => LET N == c.reconnect_count
           IN  /\ N = lastOp.arg + 1
               /\ N < 15 => c.wait_time = 2 * N
               /\ N >= 15 => c.wait_time = 30
               /\ c.wait_time <= 30 /\ c.wait_time <= 2 * N
               /\ c.wait_time = 30 \/ c.wait_time = 2 * N

C10_Witness ==
    /\ lastOp.op = "handle_disconnect" /\ Logged("sleep")
    /\ c.reconnect_count = 16 /\ c.wait_time = 30 /\ c.state = "reconnecting"

\* C11: with max_reconnect_attempts = 2 and reconnect handshakes that fail, a 1st and a
\* 2nd reconnect attempt are issued and no 3rd: the counter never passes 2, and a failed
\* 1st attempt is followed by the 2nd (the counter reaches 2) unless the Connection
\* got connected meanwhile.
C11_SecondAttemptThenExhaustion ==
    /\ [](cfg.max_reconnect_attempts = 2 => c.reconnect_count <= 2)
    /\ (/\ cfg.max_reconnect_attempts = 2
        /\ lastOp.op = "handshake_fail" /\ c.reconnect_count = 1)
          ~> (c.reconnect_count = 2 \/ c.state = "connected")

\* C12: with max_reconnect_attempts = 0, once the reconnect procedure has been engaged
\* after an unexpected disconnect, the state returns to Connected, given a transport
\* that accepts a handshake at last.
C12_UnlimitedReconnectRecovers ==
    (cfg.max_reconnect_attempts = 0 /\ c.state = "reconnecting") ~> (c.state = "connected")

\* the callbacks a Connection registers with the scheduler
ClientFuncs == {"_check_connection", "_send_heartbeat"}

\* C13: disconnect() may be called from any state and repeatedly: the call sets Closed and
\* unregisters the liveness check and the heartbeat at once, and when the call returns
\* the state is Closed, neither task is registered, and neither the socket nor the
\* session is open; a call on a Connection already closed down changes nothing.
C13_DisconnectIdempotent ==
    [][/\ lastOp'.op = "disconnect"
          => /\ lastOp'.exc = "none"
             /\ c'.state = "closed"
             /\ \A i \in 1..Len(hb'.tasks) : hb'.tasks[i].func \notin ClientFuncs
             /\ c'.check_task_id = 0 /\ c'.heartbeat_task_id = 0
       /\ (\/ lastOp'.op = "disconnect_done"
           \/ lastOp'.op = "disconnect" /\ procs'.closing = procs.closing)
          => /\ c'.state = "closed"
             /\ \A i \in 1..Len(hb'.tasks) : hb'.tasks[i].func \notin ClientFuncs
             /\ c'.ws # "open" /\ c'.session # "open"
       /\ (/\ lastOp'.op = "disconnect"
           /\ lastOp.op \in {"disconnect", "disconnect_done"}
           /\ procs.closing = 0)
          => /\ [c' EXCEPT !.log = <<>>] = [c EXCEPT !.log = <<>>]
             /\ hb' = hb /\ procs' = procs]_vars

\* C14: start() on a Connection with send_hb_interval = 0 completes without error,
\* registers the liveness check, creates the connect() task, and registers no heartbeat
\* sender, so that no heartbeat frame is sent.
C14_ZeroIntervalDisablesHeartbeat ==
    [][(lastOp'.op = "ws_start" /\ cfg.send_hb_interval = 0)
        => /\ lastOp'.exc = "none"
           /\ \E i \in 1..Len(hb'.tasks) :
                 /\ hb'.tasks[i].func = "_check_connection"
                 /\ hb'.tasks[i].id = c'.check_task_id
           /\ \A i \in 1..Len(hb'.tasks) : hb'.tasks[i].func # "_send_heartbeat"
           /\ procs'.connect_tasks = procs.connect_tasks + 1
           /\ Logged("create_task(connect)")']_vars

\* C15: routing is by exact key: a frame whose key has no callback registered under
\* exactly that key invokes no callback; a frame whose key has one invokes that callback,
\* and only that one, once.
C15_RoutingByExactKey ==
    lastOp.op = "frame"
        => adapter.invoked = IF HasKey(adapter.subscriptions, lastOp.arg)
                             THEN <<lastOp.arg>> ELSE <<>>

SendOps == {"send_json", "send_text"}

\* C16: send_json and send_text return False and send no frame when the Connection is
\* not connected (state not Connected, socket absent or closed); when connected, a
\* transport error is returned as False, not raised; they return True exactly when the
\* frame was handed to the socket. The Connection is otherwise left as it was.
C16_SendGuardedAndSafe ==
    [][lastOp'.op \in SendOps
        => /\ lastOp'.exc = "none"
           /\ lastOp'.ret \in {"True", "False"}
           /\ (c.state # "connected" \/ c.ws # "open")
                => lastOp'.ret = "False" /\ c'.log = <<>>
           /\ (c.state = "connected" /\ c.ws = "open" /\ lastOp'.arg = 0)
                => lastOp'.ret = "False" /\ ~ Logged("frame_sent")'
           /\ lastOp'.ret = "True" <=> Logged("frame_sent")'
           /\ lastOp'.ret = "True" => c.state = "connected" /\ c.ws = "open"
           /\ [c' EXCEPT !.log = <<>>] = [c EXCEPT !.log = <<>>]]_vars

C16_Witness ==
    /\ lastOp.op = "send_json" /\ lastOp.ret = "False" /\ lastOp.arg = 1
    /\ c.state = "connected" /\ c.ws = "closed"

TickOps == {"tick", "start"}

\* C17: a callback that fails does not abort the tick nor affect the others: in a tick
\* every due task whose call does not raise is launched once, whatever the other due
\* tasks do; the next tick is scheduled; a callback raising in its task changes nothing
\* in the scheduler; the scheduler has a tick pending for as long as it is running.
C17_FailingCallbackIsolated ==
    /\ [](lastOp.op \in TickOps /\ lastOp.arg > 0
            => /\ \A i \in 1..Len(hb.tasks) :
                    TimesIn(launched, hb.tasks[i].id) =
                        IF hb.count % hb.tasks[i].interval = 0
                           /\ hb.tasks[i].func # "cb_bad_call"
                        THEN 1 ELSE 0
               /\ hb.is_running /\ hb.timers >= 1)
    /\ [](hb.is_running => hb.timers >= 1)
    /\ [][lastOp'.op = "callback_raised" => hb' = hb /\ launched' = launched]_vars

C17_Witness ==
    /\ lastOp.op = "tick" /\ lastOp.arg = 2 /\ Len(hb.tasks) = 2
    /\ hb.tasks[1].func = "cb_bad_call" /\ hb.tasks[1].interval = 1
    /\ hb.tasks[2].func = "cb" /\ hb.tasks[2].interval = 2
    /\ launched = <<hb.tasks[2].id>>
    /\ hb.timers >= 1

\* C18: start() while the scheduler is running leaves the counter, the running flag, the
\* task table and the pending tick timers as they are and launches no callback; start()
\* while it is not running sets the flag, resets the counter and issues the first tick,
\* after which the counter is 1.
C18_StartIdempotentWhileRunning ==
    [][lastOp'.op = "start"
        => IF hb.is_running
           THEN /\ hb' = hb
                /\ launched' = launched /\ fired' = fired /\ procs' = procs
                /\ lastOp'.arg = 0
           ELSE /\ hb'.is_running /\ hb'.count = 1
                /\ hb'.tasks = hb.tasks
                /\ hb'.timers = hb.timers + 1
                /\ lastOp'.arg = 1
                /\ \A i \in 1..Len(hb.tasks) :
                      TimesIn(launched', hb.tasks[i].id) =
                          IF hb.tasks[i].interval = 1 THEN 1 ELSE 0]_vars

C18_Witness ==
    /\ lastOp.op = "start" /\ lastOp.arg = 0
    /\ hb.is_running /\ hb.count = 2 /\ hb.timers = 1 /\ Len(hb.tasks) = 2

\* the steps in which code of the Connection runs
ClientOps ==
    {"ws_start", "connect", "handshake_ok", "handshake_fail", "disconnect",
     "disconnect_done", "socket_closed", "recv_error", "recv_end", "reconnect_wake",
     "check", "send_json", "send_text"}

\* the states assigned by a step, in order
StatesOf(log) == SelectSeq(log, LAMBDA e : e \in ConnectionState)

\* the transitions the state machine of a Connection lists
Transitions ==
    {<<"disconnected", "connecting">>, <<"connecting", "connected">>,
     <<"connecting", "disconnected">>, <<"connected", "disconnected">>,
     <<"disconnected", "reconnecting">>, <<"reconnecting", "connecting">>}
    \cup {<<s, "closed">> : s \in ConnectionState}

\* C19: every change of the state that starts from a state other than Closed is one of
\* the listed transitions; the state never goes Reconnecting -> Disconnected or
\* Connecting -> Reconnecting.
C19_OnlyListedTransitions ==
    [][lastOp'.op \in ClientOps
        => LET path == <<c.state>> \o StatesOf(c'.log)
           IN  \A i \in 1..(Len(path) - 1) :
                   (path[i] # "closed" /\ path[i] # path[i + 1])
                      => <<path[i], path[i + 1]>> \in Transitions]_vars

\* C20: the reconnect procedure never overlaps with itself: at no time are two
\* reconnect procedures of the Connection in progress (waiting in their backoff or
\* about to call connect()).
C20_NoOverlappingReconnects == procs.sleepers <= 1

\* the part of a sequence from position n on
From(seq, n) == SubSeq(seq, n, Len(seq))

\* C21: the disconnect handling entered by a receive loop does nothing when the state is
\* Closed (no state change, no on_disconnect, no reconnect); otherwise it sets
\* Disconnected, invokes on_disconnect once, and enters the reconnect procedure exactly
\* when auto-reconnect is enabled: with auto-reconnect disabled the state stays
\* Disconnected and no connect attempt is made.
C21_HandleDisconnect ==
    [][lastOp'.op = "recv_error"
        => IF c.state = "closed"
           THEN /\ c'.state = "closed" /\ c'.log = <<>>
                /\ c'.reconnect_count = c.reconnect_count
                /\ procs'.sleepers = procs.sleepers
                /\ procs'.handshakes = procs.handshakes
           ELSE /\ Len(c'.log) >= 2
                /\ c'.log[1] = "disconnected" /\ c'.log[2] = "on_disconnect"
                /\ TimesIn(c'.log, "on_disconnect") = 1
                /\ procs'.handshakes = procs.handshakes
                /\ IF cfg.auto_reconnect
                   THEN From(c'.log, 3) \in {<<"exhausted">>, <<"reconnecting", "sleep">>}
                   ELSE /\ c'.log = <<"disconnected", "on_disconnect">>
                        /\ c'.state = "disconnected"
                        /\ c'.reconnect_count = c.reconnect_count
                        /\ procs'.sleepers = procs.sleepers]_vars

C21_Witness ==
    /\ lastOp.op = "recv_error" /\ c.state = "closed" /\ c.log = <<>>
    /\ c.reconnect_count = 0 /\ procs.sleepers = 0

\* C22: a successful connect() sets the state to Connected and the reconnect counter
\* to 0, then invokes on_connect exactly once, and only after on_connect has returned
\* starts exactly one receive loop; it then returns True.
C22_SuccessfulConnect ==
    [][lastOp'.op = "handshake_ok"
        => /\ c'.log = <<"connected", "on_connect", "create_task(_receive_loop)">>
           /\ c'.state = "connected"
           /\ c'.reconnect_count = 0
           /\ c'.ws = "open"
           /\ procs'.recv_cur + procs'.recv_old = procs.recv_cur + procs.recv_old + 1
           /\ procs'.recv_cur = 1
           /\ lastOp'.ret = "True" /\ lastOp'.exc = "none"]_vars

\* a connect() succeeded after a reconnect wait: the counter is back at 0
C22_Witness ==
    /\ lastOp.op = "handshake_ok" /\ lastOp.ret = "True"
    /\ c.state = "connected" /\ c.reconnect_count = 0 /\ c.wait_time = 2
    /\ procs.recv_cur = 1

\* C23: with a maximum attempt count configured (> 0) and reached by the reconnect
\* counter, the reconnect procedure gives up without raising: the state stays
\* Disconnected, the counter is not incremented, nothing waits and connect() is not
\* called.
C23_ExhaustionGivesUp ==
    [][(/\ lastOp'.op \in {"recv_error", "check"}
        /\ c'.log # <<>>
        /\ cfg.auto_reconnect
        /\ cfg.max_reconnect_attempts > 0
        /\ c.reconnect_count >= cfg.max_reconnect_attempts)
        => /\ c'.log = <<"disconnected", "on_disconnect", "exhausted">>
           /\ c'.state = "disconnected"
           /\ c'.reconnect_count = c.reconnect_count
           /\ c'.wait_time = c.wait_time
           /\ procs'.sleepers = procs.sleepers
           /\ procs'.handshakes = procs.handshakes
           /\ procs'.connect_tasks = procs.connect_tasks
           /\ lastOp'.exc = "none"]_vars

C23_Witness ==
    /\ lastOp.op = "recv_error" /\ Logged("exhausted")
    /\ cfg.max_reconnect_attempts = 1 /\ c.reconnect_count = 1
    /\ c.state = "disconnected" /\ procs.sleepers = 0 /\ procs.handshakes = 0

\* C24: the liveness check runs the disconnect handling if and only if the socket
\* handle exists, reports closed and the recorded state is Connected; in every other
\* case (no handle, handle open, state not Connected) it changes nothing.
C24_LivenessCheck ==
    [][lastOp'.op = "check"
        => IF c.ws = "closed" /\ c.state = "connected"
           THEN /\ Len(c'.log) >= 2
                /\ c'.log[1] = "disconnected" /\ c'.log[2] = "on_disconnect"
                /\ TimesIn(c'.log, "on_disconnect") = 1
           ELSE /\ c' = Fresh
                /\ procs' = [procs EXCEPT !.checks = @ - 1]
                /\ hb' = hb]_vars

C24_Witness ==
    /\ lastOp.op = "check"
    /\ c.ws = "closed" /\ c.log = <<"disconnected", "on_disconnect">>
    /\ c.state = "disconnected" /\ ~cfg.auto_reconnect

HeartbeatFrames == {"send_json(heartbeat_msg)", "send_str(heartbeat_msg)"}

\* C25: the base heartbeat sender sends a frame only when the client is connected
\* (state Connected and socket open) and a heartbeat payload is configured; otherwise
\* it sends nothing; a frame it sends is the configured payload, a dict as JSON and a
\* string as text; a failing send is caught and the connection state is as before.
C25_HeartbeatSender ==
    [][lastOp'.op = "send_heartbeat"
        => /\ IF is_connected(c) /\ cfg.heartbeat_msg # "None"
              THEN /\ Len(c'.log) = 1
                   /\ c'.log[1] \in HeartbeatFrames => lastOp'.arg = 1
                   /\ c'.log[1] = "send_json(heartbeat_msg)" => cfg.heartbeat_msg = "dict"
                   /\ c'.log[1] = "send_str(heartbeat_msg)" => cfg.heartbeat_msg = "str"
                   /\ lastOp'.arg = 0 => c'.log[1] \notin HeartbeatFrames
              ELSE c'.log = <<>>
           /\ [c' EXCEPT !.log = <<>>] = Fresh
           /\ procs' = [procs EXCEPT !.hbs = @ - 1]
           /\ lastOp'.exc = "none"]_vars

\* a heartbeat was sent on an open connection
C25_Witness ==
    /\ lastOp.op = "send_heartbeat"
    /\ c.log = <<"send_json(heartbeat_msg)">> /\ cfg.heartbeat_msg = "dict"
    /\ c.state = "connected" /\ c.ws = "open"

----------------------------------------------------------------------------
(* Properties of the receive loop *)

CallsAt(r) == {i \in 1..Len(r.calls) : r.calls[i].ev = "call"}

LastMsg(r) == r.received[Len(r.received)]

\* C27: the receive loop classifies each frame: a text frame causes exactly one
\* process() call, with the decoded value or, where decoding fails, the raw string; a
\* binary frame exactly one process_binary() call; a close frame or a transport error
\* makes the disconnect handling run once and ends the loop, so that this loop
\* delivers no later frame.
C27_FramesClassified ==
    [][lastOp'.op = "recv"
        => LET msg == LastMsg(rx')
               new == From(rx'.calls, Len(rx.calls) + 1)
               n == Len(rx'.received)
           IN  /\ rx'.received = Append(rx.received, msg)
               /\ msg.type = "TEXT"
                    => /\ new = <<HookCall("process", n, IF msg.json THEN "decoded" ELSE "raw")>>
                       /\ procs'.recv_cur = procs.recv_cur
               /\ msg.type = "BINARY"
                    => /\ new = <<HookCall("process_binary", n, "bytes")>>
                       /\ procs'.recv_cur = procs.recv_cur
               /\ msg.type \in {"CLOSE", "ERROR"}
                    => /\ new = <<>>
                       /\ procs'.recv_cur = procs.recv_cur - 1
                       /\ c.state # "closed"
                            => /\ Len(c'.log) >= 2
                               /\ c'.log[1] = "disconnected"
                               /\ c'.log[2] = "on_disconnect"
                               /\ TimesIn(c'.log, "on_disconnect") = 1]_vars

\* C28: an exception raised by the process or process_binary hook while it handles a
\* frame is swallowed: the receive loop is not ended, the connection state is as it
\* was, no disconnect handling runs, and the loop is back at its socket for the
\* frames that follow.
C28_HookExceptionSwallowed ==
    [][lastOp'.op = "hook_raised"
        => /\ c' = Fresh
           /\ procs' = procs
           /\ procs'.recv_cur = 1
           /\ ~rx'.at_hook /\ rx'.running = {}
           /\ lastOp'.exc = "none"]_vars

\* the hook raised on the first frame and the second frame was delivered all the same
C28_Witness ==
    /\ Len(rx.calls) = 3
    /\ rx.calls[2].ev = "raised" /\ rx.calls[2].n = 1
    /\ rx.calls[3].ev = "call" /\ rx.calls[3].n = 2
    /\ c.state = "connected" /\ procs.recv_cur = 1

----------------------------------------------------------------------------
(* Properties of the scheduler's timer *)

\* C29: the scheduler has a single tick source: across any sequence of start() and
\* stop() calls, stop() followed by start() before the scheduled tick has fired
\* included, at most one tick timer is pending at any time.
C29_SingleTickSource == hb.timers <= 1

\* C30: stop() only flips the running flag, the task table and the tick counter are
\* as before; from the return of stop() until start() is called again no task callback
\* is launched, the counter does not advance and no further tick is scheduled.
C30_StopHaltsTicking ==
    [][/\ lastOp'.op = "stop"
            => /\ hb' = [hb EXCEPT !.is_running = FALSE]
               /\ procs' = procs /\ launched' = launched
       /\ (~hb.is_running /\ lastOp'.op # "start")
            => /\ ~hb'.is_running
               /\ hb'.count = hb.count
               /\ hb'.timers <= hb.timers
               /\ procs'.cbs <= procs.cbs
               /\ launched' = launched]_vars

\* the tick that was pending at stop() fired with a task due at the next count: it
\* launched nothing and scheduled nothing
C30_Witness ==
    /\ lastOp.op = "tick" /\ lastOp.arg = 0
    /\ ~hb.is_running /\ hb.count = 1 /\ hb.timers = 0
    /\ Len(hb.tasks) > 0 /\ hb.tasks[1].interval = 1 /\ hb.tasks[1].func = "cb_raises"
    /\ hist.starts = 1

----------------------------------------------------------------------------
(* Properties of the last part of the specification *)

\* C31: the task table tolerates register and unregister calls made by the lifecycles
\* of Connections and by callbacks a tick launched: a tick launches every due task of
\* the table as it is when the tick begins exactly once and raises nothing, it leaves
\* the table as it is, and a task unregistered before the tick is not launched in it.
C31_TableToleratesChange ==
    [][(lastOp'.op \in TickOps /\ lastOp'.arg > 0)
        => /\ \A i \in 1..Len(hb.tasks) :
                TimesIn(launched', hb.tasks[i].id) =
                    IF hb'.count % hb.tasks[i].interval = 0 THEN 1 ELSE 0
           /\ \A j \in 1..Len(launched') : launched'[j] \in TaskIds(hb.tasks)
           /\ \A id \in hist.unregs :
                id \notin TaskIds(hb.tasks) => TimesIn(launched', id) = 0
           /\ hb'.tasks = hb.tasks
           /\ hb'.is_running /\ hb'.timers >= 1
           /\ lastOp'.exc = "none"]_vars

\* a tick ran after a launched callback had unregistered the first task and another
\* had registered a second one: it launched the second only
C31_Witness ==
    /\ lastOp.op = "tick" /\ lastOp.arg = 3
    /\ hist.unregs = {1}
    /\ TaskIds(hb.tasks) = {2} /\ hb.tasks[1].func = "cb"
    /\ launched = <<2>>

\* the callbacks the second client registers
PeerFuncs == {"peer._check_connection", "peer._send_heartbeat"}

TasksOf(h, funcs) == SelectSeq(h.tasks, LAMBDA t : t.func \in funcs)

\* the task ids a client holds
HeldIds(w) == {w.check_task_id, w.heartbeat_task_id} \ {0}

\* C32: with two Connections on the one scheduler, start() and disconnect() of one add
\* and remove only tasks of that Connection: the tasks of the other stay registered and
\* are launched by the ticks when due, and the state, the socket and the reconnect
\* counter of the other are as before.
C32_ConnectionsAreSeparate ==
    [][/\ lastOp'.op \in ClientOps
            => /\ peer' = peer
               /\ TasksOf(hb', PeerFuncs) = TasksOf(hb, PeerFuncs)
       /\ lastOp'.op \in {"peer_start", "peer_disconnect"}
            => /\ c' = c /\ procs' = procs
               /\ TasksOf(hb', ClientFuncs) = TasksOf(hb, ClientFuncs)
       /\ lastOp'.op = "ws_start"
            => /\ TaskIds(hb'.tasks) = TaskIds(hb.tasks) \cup (uuid + 1 .. uuid')
               /\ HeldIds(c') = uuid + 1 .. uuid'
               /\ uuid' <= uuid + 2
       /\ lastOp'.op = "peer_start"
            => /\ TaskIds(hb'.tasks) = TaskIds(hb.tasks) \cup (uuid + 1 .. uuid')
               /\ HeldIds(peer') = uuid + 1 .. uuid'
       /\ lastOp'.op = "disconnect"
            => /\ TaskIds(hb'.tasks) = TaskIds(hb.tasks) \ HeldIds(c)
               /\ HeldIds(c') = {}
       /\ lastOp'.op = "peer_disconnect"
            => /\ TaskIds(hb'.tasks) = TaskIds(hb.tasks) \ HeldIds(peer)
               /\ HeldIds(peer') = {}
       /\ (lastOp'.op \in TickOps /\ lastOp'.arg > 0)
            => \A i \in 1..Len(hb.tasks) :
                  TimesIn(launched', hb.tasks[i].id) =
                      IF hb'.count % hb.tasks[i].interval = 0 THEN 1 ELSE 0]_vars

\* the first client disconnected from an open socket while the second was registered:
\* the two tasks of the second are all that is left in the table
C32_Witness ==
    /\ lastOp.op = "disconnect" /\ procs.closing = 1
    /\ Len(TasksOf(hb, PeerFuncs)) = 2 /\ Len(hb.tasks) = 2
    /\ HeldIds(peer) = TaskIds(hb.tasks)
    /\ peer.state = "disconnected" /\ c.state = "closed"
    /\ hb.is_running

\* C36: after disconnect() has completed, the task table holds no task this Connection
\* registered, whatever start() calls came before, start() called twice included.
C36_NoTaskLeftAfterDisconnect ==
    (\/ lastOp.op = "disconnect_done"
     \/ lastOp.op = "disconnect" /\ procs.closing = 0)
        => TasksOf(hb, ClientFuncs) = <<>>

\* C33: in the subscription registry of every adapter, subscribe of a key with a
\* callback leaves exactly one entry for the key, also when the key was subscribed
\* before, and unsubscribe of a key leaves none and does not raise, whether or not
\* there was one; the entries of the other keys are as before.
C33_RegistryFollowsLastOperation ==
    [][/\ lastOp'.op = "subscribe"
            => /\ TimesIn(adapter'.subscriptions, lastOp'.arg) = 1
               /\ unsubscribe(adapter'.subscriptions, lastOp'.arg)
                    = unsubscribe(adapter.subscriptions, lastOp'.arg)
       /\ lastOp'.op = "unsubscribe"
            => /\ ~HasKey(adapter'.subscriptions, lastOp'.arg)
               /\ unsubscribe(adapter'.subscriptions, lastOp'.arg)
                    = unsubscribe(adapter.subscriptions, lastOp'.arg)
               /\ lastOp'.exc = "none"]_vars

\* C34: a Gate.io private-channel client accepts subscriptions only while
\* authenticated: without the flag subscribe() returns False, sends no frame and
\* registers no callback; the flag is set only by a login response without error, and
\* it is cleared by every run of the disconnect handling and by every login response
\* with an error.
C34_SubscribeNeedsLogin ==
    [][/\ (lastOp'.op = "gate_subscribe" /\ ~adapter.authenticated)
            => /\ lastOp'.ret = "False"
               /\ adapter' = adapter
               /\ c'.log = <<>>
       /\ (adapter'.authenticated /\ ~adapter.authenticated)
            => lastOp'.op = "login_response" /\ lastOp'.arg = "ok"
       /\ (lastOp'.op = "login_response" /\ lastOp'.arg = "error")
            => ~adapter'.authenticated
       /\ lastOp'.op \in {"recv_error", "handshake_ok"}
            => ~adapter'.authenticated]_vars

\* C35: with max_reconnect_attempts > 0 the reconnect counter never exceeds
\* max_reconnect_attempts, whatever the interleaving of disconnect detections,
\* reconnects and connects; and the counter is 0 in every state a successful connect
\* leads to.
C35_CounterWithinLimit ==
    /\ cfg.max_reconnect_attempts > 0 => c.reconnect_count <= cfg.max_reconnect_attempts
    /\ lastOp.op = "handshake_ok" => c.reconnect_count = 0

\* a detection arrives with the counter at the limit and is refused
C35_Witness ==
    /\ cfg.max_reconnect_attempts > 0
    /\ c.reconnect_count = cfg.max_reconnect_attempts
    /\ Logged("exhausted")

\* C37: at most one receive loop of a Connection is active at any time: when a
\* successful connect() starts the new loop, the loop of the previous socket is over,
\* so no stale loop is left to run the disconnect handling against the new connection.
C37_OneReceiveLoop == procs.recv_cur + procs.recv_old <= 1

\* C38: a failure of the on_disconnect hook does not stop recovery: when the hook
\* raises during the disconnect handling with auto-reconnect enabled, the reconnect
\* procedure is still invoked, and the exception leaves neither the receive loop nor
\* the liveness-check callback.
C38_HookFailureContained ==
    [][(/\ lastOp'.op \in {"recv_error", "check"}
        /\ lastOp'.arg > 0
        /\ cfg.auto_reconnect)
        => /\ lastOp'.exc = "none"
           /\ \E i \in 1..Len(c'.log) : c'.log[i] \in {"sleep", "exhausted"}]_vars

============================================================================
